---- MODULE Spec2Model ----
\* Model of scraper.py: get_book_data (detail extraction) and scrape_books
\* (the page loop over the catalogue), run against a remote source whose
\* answers are fixed the first time each URL is requested.
EXTENDS Integers, Sequences, FiniteSets, TLC

\* ---------------------------------------------------------------- bounds
\* Number of catalogue pages the source may serve; later pages end the catalogue.
MaxPage == 2
\* Largest number of class tokens on the star-rating paragraph of a detail page.
MaxTokens == 2
\* Largest number of rows of the characteristics table of a detail page.
MaxRows == 2

\* ---------------------------------------------------------------- values
\* An optional value is a sequence of length at most one: None is Python's
\* None, Some(v) a value that is present.
None == <<>>
Some(v) == <<v>>
\* A source answer that has not been requested yet.
Unknown == [unknown |-> TRUE]
\* requests.get raised (connection failure, timeout): there is no response.
ConnError == [conn_error |-> TRUE]

\* Text is a sequence of one-character strings.
IsSpace(c) == c = " "

RECURSIVE LStrip(_)
LStrip(s) == IF s # <<>> /\ IsSpace(Head(s)) THEN LStrip(Tail(s)) ELSE s

RECURSIVE RStrip(_)
RStrip(s) ==
    IF s # <<>> /\ IsSpace(s[Len(s)]) THEN RStrip(SubSeq(s, 1, Len(s) - 1)) ELSE s

\* str.strip()
Strip(s) == RStrip(LStrip(s))

\* tag.text.strip() if tag else None
TextOrNone(tag) == IF tag # None THEN Some(Strip(tag[1])) ELSE None

\* ---------------------------------------------------------------- get_book_data
\* Response.raise_for_status(): HTTPError for 4xx and 5xx statuses.
RaisesForStatus(status) == status >= 400 /\ status < 600

\* rating_classes[1] if len(rating_classes) > 1 else None
RatingOf(rating_tag) ==
    IF rating_tag # None
    THEN IF Len(rating_tag[1]) > 1 THEN Some(rating_tag[1][2]) ELSE None
    ELSE None

\* description_p.text.strip() if the marker div and its next sibling p exist
DescriptionOf(doc) ==
    IF doc.description_tag
    THEN TextOrNone(doc.description_p)
    ELSE None

\* The loop over the table rows with a key kept at its first value.
RECURSIVE ProductInfoRowsKeepFirst(_, _)
ProductInfoRowsKeepFirst(rows, product_info) ==
    IF rows = <<>> THEN product_info
    ELSE LET row == Head(rows)
             next == IF row.th # None /\ row.td # None
                     THEN LET key == Strip(row.th[1])
                              value == Strip(row.td[1])
                          IN  [k \in (DOMAIN product_info) \cup {key} |->
                                   IF k \in DOMAIN product_info
                                   THEN product_info[k] ELSE value]
                     ELSE product_info
         IN  ProductInfoRowsKeepFirst(Tail(rows), next)

\* The for loop over the table rows: later rows overwrite earlier keys.
RECURSIVE ProductInfoRows(_, _)
ProductInfoRows(rows, product_info) ==
    IF rows = <<>> THEN product_info
    ELSE LET row == Head(rows)
             next == IF row.th # None /\ row.td # None
                     THEN LET key == Strip(row.th[1])
                              value == Strip(row.td[1])
                          IN  [k \in (DOMAIN product_info) \cup {key} |->
                                   IF k = key THEN value ELSE product_info[k]]
                     ELSE product_info
         IN  ProductInfoRows(Tail(rows), next)

ProductInfoOf(table) ==
    IF table # None THEN ProductInfoRows(table[1], <<>>) ELSE <<>>

\* The dict without the description key when the page has no description.
ParseBookOmitsDescription(doc) ==
    IF DescriptionOf(doc) = None
    THEN [title        |-> TextOrNone(doc.h1),
          price        |-> TextOrNone(doc.price),
          rating       |-> RatingOf(doc.rating_tag),
          availability |-> TextOrNone(doc.availability),
          product_info |-> ProductInfoOf(doc.table)]
    ELSE [title        |-> TextOrNone(doc.h1),
          price        |-> TextOrNone(doc.price),
          rating       |-> RatingOf(doc.rating_tag),
          availability |-> TextOrNone(doc.availability),
          description  |-> DescriptionOf(doc),
          product_info |-> ProductInfoOf(doc.table)]

\* The dict built from a parsed detail document.
ParseBook(doc) ==
    [title        |-> TextOrNone(doc.h1),
     price        |-> TextOrNone(doc.price),
     rating       |-> RatingOf(doc.rating_tag),
     availability |-> TextOrNone(doc.availability),
     description  |-> DescriptionOf(doc),
     product_info |-> ProductInfoOf(doc.table)]

\* An exception of the given class leaving a function.
Raise(class) == [raised |-> class]
IsRaised(value) == "raised" \in DOMAIN value

\* get_book_data on the answer of the source: the dict, or the exception of
\* requests.get (line 35) or of raise_for_status (line 36).
get_book_data(response) ==
    IF response = ConnError THEN Raise("ConnectionError")
    ELSE IF RaisesForStatus(response.status) THEN Raise("HTTPError")
    ELSE ParseBook(response.doc)

\* ---------------------------------------------------------------- the source
\* Hrefs that listing pages carry.
Refs == {"r1", "r2"}

\* The detail document the source serves for a ref.
BookDoc(ref) ==
    [h1 |-> Some(<<" ", ref, " ">>), price |-> Some(<<"5">>),
     rating_tag |-> Some(<<"star-rating", "Three">>),
     availability |-> Some(<<"I", "n">>),
     description_tag |-> TRUE, description_p |-> Some(<<"d">>),
     table |-> Some(<< [th |-> Some(<<"U">>), td |-> Some(<<ref>>)] >>)]

\* The same document without its h1 heading.
NoTitleDoc(ref) == [BookDoc(ref) EXCEPT !.h1 = None]

EmptyDoc ==
    [h1 |-> None, price |-> None, rating_tag |-> None, availability |-> None,
     description_tag |-> FALSE, description_p |-> None, table |-> None]

\* What the source may answer to the request of a detail page.
BookResponses(ref) ==
    { [status |-> 200, doc |-> BookDoc(ref)],
      [status |-> 200, doc |-> NoTitleDoc(ref)],
      [status |-> 404, doc |-> EmptyDoc],
      ConnError }

\* An article container of a listing page: its h3, the a inside, the href.
Art(ref) == [h3 |-> TRUE, a |-> TRUE, href |-> Some(ref)]
NoH3 == [h3 |-> FALSE, a |-> FALSE, href |-> None]
NoA == [h3 |-> TRUE, a |-> FALSE, href |-> None]
NoHref == [h3 |-> TRUE, a |-> TRUE, href |-> None]
EmptyHref == [h3 |-> TRUE, a |-> TRUE, href |-> Some("")]

\* The article lists a listing page may carry (soup.find_all("article", ...)).
ListingBodies ==
    { <<>>,
      <<Art("r1")>>,
      <<Art("r1"), Art("r2")>>,
      <<Art("r2"), NoA, Art("r1")>>,
      <<NoH3, NoHref, EmptyHref>> }

\* Bodies of answers whose status is neither 2xx, 404 nor an error status.
RedirectBodies == { <<Art("r2"), NoH3>> }

\* What the source may answer to the request of listing page p: pages after
\* MaxPage end the catalogue.
PageResponses(p) ==
    IF p <= MaxPage
    THEN { [status |-> 200, articles |-> b] : b \in ListingBodies }
         \cup { [status |-> 301, articles |-> b] : b \in RedirectBodies }
         \cup { [status |-> s, articles |-> <<>>] : s \in {404, 500} }
         \cup { ConnError }
    ELSE { [status |-> 404, articles |-> <<>>], ConnError }

\* ---------------------------------------------------------------- scrape_books
VARIABLES
    pc,             \* position in scrape_books: idle, loop, fetch, articles, sleep, return, done
    max_pages,      \* argument: None or Some(n)
    is_save,        \* argument
    books_list,     \* the accumulating result
    page_num,       \* the page cursor
    book_articles,  \* article containers of the listing being processed
    idx,            \* position of the for loop in book_articles
    outcome,        \* which message ended the while loop
    fetches,        \* URLs requested during this call, in order
    source_pages,   \* the source's answer for each listing page
    source_books,   \* the source's answer for each detail page
    result,         \* what the last finished call handed to its caller
    prev,           \* result_1_page: what a caller kept of its call with max_pages=1
    file,           \* contents of books_data.txt
    detail_response,\* get_book_data called on its own: the answer to its request
    detail_data     \* get_book_data called on its own: what it gave, if it has ended

vars == <<pc, max_pages, is_save, books_list, page_num, book_articles, idx,
          outcome, fetches, source_pages, source_books, result, prev, file,
          detail_response, detail_data>>

\* The variables of a call of get_book_data on its own.
extraction == <<detail_response, detail_data>>

\* base_url.format(page_num)
CatalogUrl(p) == [kind |-> "catalog", page |-> p, ref |-> ""]
\* f"http://books.toscrape.com/catalogue/{book_relative_url}"
BookUrl(ref) == [kind |-> "book", page |-> 0, ref |-> ref]

\* Values of max_pages the callers pass.
MaxPagesArgs == {None} \cup { Some(n) : n \in 0..MaxPage }

\* Arguments of the calls: the tests pass is_save=False and a bound, the
\* scheduled job passes is_save=True and no bound.
CallArgs == { <<FALSE, mp>> : mp \in MaxPagesArgs } \cup { <<TRUE, None>> }

\* Python truthiness of max_pages: None and 0 are false.
Truthy(mp) == mp # None /\ mp[1] # 0

\* The bound check with a missing bound read as a bound of one page.
LimitReachedDefaultOne(mp, p) == p > (IF mp = None THEN 1 ELSE IF mp[1] = 0 THEN p ELSE mp[1])

\* The bound check one page late.
LimitReachedLate(mp, p) == Truthy(mp) /\ p > mp[1] + 1

\* if max_pages and page_num > max_pages
LimitReached(mp, p) == Truthy(mp) /\ p > mp[1]

\* if h3_tag: ... if a_tag and a_tag.get("href")
HasRef(article) ==
    article.h3 /\ article.a /\ article.href # None /\ article.href[1] # ""

\* The answers the source can give to a URL: the one it gave before, if any.
Answers(known, fresh) == IF known = Unknown THEN fresh ELSE {known}

Init ==
    /\ pc = "idle"
    /\ max_pages = None
    /\ is_save = FALSE
    /\ books_list = <<>>
    /\ page_num = 1
    /\ book_articles = <<>>
    /\ idx = 0
    /\ outcome = "none"
    /\ fetches = <<>>
    /\ source_pages = [p \in 1..(MaxPage + 1) |-> Unknown]
    /\ source_books = [r \in Refs |-> Unknown]
    /\ result = None
    /\ prev = None
    /\ file = None
    /\ detail_response = ConnError
    /\ detail_data = None

\* Entry of scrape_books: the arguments are bound and the locals of lines
\* 105-107 are set; kept is what the caller holds of an earlier result.
Enter(save, mp, kept, list) ==
    /\ max_pages' = mp
    /\ is_save' = save
    /\ books_list' = list
    /\ page_num' = 1
    /\ book_articles' = <<>>
    /\ idx' = 0
    /\ outcome' = "none"
    /\ fetches' = <<>>
    /\ prev' = kept
    /\ result' = None
    /\ pc' = "loop"
    /\ UNCHANGED <<source_pages, source_books, file,
                   extraction>>

\* A caller invokes scrape_books(is_save, max_pages).
Call(save, mp) ==
    /\ pc \in {"idle", "done"}
    /\ Enter(save, mp, None, <<>>)

\* The second call with the accumulator of the first call left in place.
CallAgainKeepsList(mp) ==
    /\ pc = "done"
    /\ max_pages = Some(1)
    /\ ~is_save
    /\ mp \in {Some(1), Some(2)}
    /\ Enter(FALSE, mp, Some(result[1].value), books_list)

\* A caller that got the result of scrape_books(max_pages=1) keeps it as
\* result_1_page and calls again, with max_pages=1 or max_pages=2.
CallAgain(mp) ==
    /\ pc = "done"
    /\ max_pages = Some(1)
    /\ ~is_save
    /\ mp \in {Some(1), Some(2)}
    /\ Enter(FALSE, mp, Some(result[1].value), <<>>)

\* Head of the while loop: the bound check, lines 112-114.
LoopHead ==
    /\ pc = "loop"
    /\ IF LimitReached(max_pages, page_num)
       THEN outcome' = "limit" /\ pc' = "return"
       ELSE outcome' = outcome /\ pc' = "fetch"
    /\ UNCHANGED <<max_pages, is_save, books_list, page_num, book_articles, idx,
                   fetches, source_pages, source_books, result, prev, file,
                   extraction>>

\* The classification without the check for a listing without articles.
ListingStepNoEmptyCheck(response) ==
    IF response = ConnError THEN "error"
    ELSE IF response.status = 404 THEN "not_found"
    ELSE IF RaisesForStatus(response.status) THEN "error"
    ELSE "none"

\* The classification without raise_for_status.
ListingStepNoRaise(response) ==
    IF response = ConnError THEN "error"
    ELSE IF response.status = 404 THEN "not_found"
    ELSE IF response.articles = <<>> THEN "empty"
    ELSE "none"

\* How the listing response is classified, lines 120-131 and 154-156.
ListingStep(response) ==
    IF response = ConnError THEN "error"
    ELSE IF response.status = 404 THEN "not_found"
    ELSE IF RaisesForStatus(response.status) THEN "error"
    ELSE IF response.articles = <<>> THEN "empty"
    ELSE "none"

\* Request of the listing page and its classification, lines 116-131, 154-156.
FetchCatalog ==
    /\ pc = "fetch"
    /\ \E response \in Answers(source_pages[page_num], PageResponses(page_num)) :
         /\ source_pages' = [source_pages EXCEPT ![page_num] = response]
         /\ fetches' = Append(fetches, CatalogUrl(page_num))
         /\ outcome' = ListingStep(response)
         /\ IF ListingStep(response) = "none"
            THEN /\ book_articles' = response.articles
                 /\ idx' = 1
                 /\ pc' = "articles"
            ELSE /\ UNCHANGED <<book_articles, idx>>
                 /\ pc' = "return"
    /\ UNCHANGED <<max_pages, is_save, books_list, page_num, source_books,
                   result, prev, file,
                   extraction>>

\* An article without h3, a or href is passed over, lines 134-137.
SkipArticle ==
    /\ pc = "articles"
    /\ idx <= Len(book_articles)
    /\ ~HasRef(book_articles[idx])
    /\ idx' = idx + 1
    /\ UNCHANGED <<pc, max_pages, is_save, books_list, page_num, book_articles,
                   outcome, fetches, source_pages, source_books, result, prev, file,
                   extraction>>

\* An inner handler that catches connection failures only.
InnerCatchesConnectionOnly(class) == class = "ConnectionError"

\* except Exception, line 147: the classes the inner handler catches.
InnerCatches(class) == class \in {"ConnectionError", "HTTPError"}

\* The new item put in front of the list instead of at its end.
AfterBookPrepend(list, book_data) ==
    IF IsRaised(book_data) THEN list ELSE <<book_data>> \o list

\* The append made whether get_book_data returned or raised.
AfterBookAlways(list, book_data) == Append(list, book_data)

\* books_list after the inner try, lines 143-146.
AfterBook(list, book_data) ==
    IF IsRaised(book_data) THEN list ELSE Append(list, book_data)

\* The detail request with the delay made only when the item was appended.
ScrapeBookDelayOnSuccessOnly ==
    /\ pc = "articles"
    /\ idx <= Len(book_articles)
    /\ HasRef(book_articles[idx])
    /\ LET ref == book_articles[idx].href[1] IN
       \E response \in Answers(source_books[ref], BookResponses(ref)) :
         /\ source_books' = [source_books EXCEPT ![ref] = response]
         /\ fetches' = Append(fetches, BookUrl(ref))
         /\ books_list' = AfterBook(books_list, get_book_data(response))
         /\ IF IsRaised(get_book_data(response))
            THEN idx' = idx + 1 /\ pc' = "articles"
            ELSE idx' = idx /\ pc' = "sleep"
    /\ UNCHANGED <<max_pages, is_save, page_num, book_articles, outcome,
                   source_pages, result, prev, file, extraction>>

\* The detail page of the article is requested and parsed, lines 138-148.
ScrapeBook ==
    /\ pc = "articles"
    /\ idx <= Len(book_articles)
    /\ HasRef(book_articles[idx])
    /\ LET ref == book_articles[idx].href[1] IN
       \E response \in Answers(source_books[ref], BookResponses(ref)) :
         /\ source_books' = [source_books EXCEPT ![ref] = response]
         /\ fetches' = Append(fetches, BookUrl(ref))
         /\ books_list' = AfterBook(books_list, get_book_data(response))
         /\ IF IsRaised(get_book_data(response))
               /\ ~InnerCatches(get_book_data(response).raised)
            THEN \* a RequestException reaches the outer handler, lines 154-156
                 outcome' = "error" /\ pc' = "return"
            ELSE outcome' = outcome /\ pc' = "sleep"
    /\ UNCHANGED <<max_pages, is_save, page_num, book_articles, idx,
                   source_pages, result, prev, file,
                   extraction>>

\* The loop moving two articles on after the delay.
SleepSkipsNext ==
    /\ pc = "sleep"
    /\ idx' = idx + 2
    /\ pc' = "articles"
    /\ UNCHANGED <<max_pages, is_save, books_list, page_num, book_articles,
                   outcome, fetches, source_pages, source_books, result, prev, file,
                   extraction>>

\* time.sleep(0.1), line 150, then the next article.
Sleep ==
    /\ pc = "sleep"
    /\ idx' = idx + 1
    /\ pc' = "articles"
    /\ UNCHANGED <<max_pages, is_save, books_list, page_num, book_articles,
                   outcome, fetches, source_pages, source_books, result, prev, file,
                   extraction>>

\* End of the for loop: page_num += 1, line 152.
NextPage ==
    /\ pc = "articles"
    /\ idx > Len(book_articles)
    /\ page_num' = page_num + 1
    /\ pc' = "loop"
    /\ UNCHANGED <<max_pages, is_save, books_list, book_articles, idx, outcome,
                   fetches, source_pages, source_books, result, prev, file,
                   extraction>>

\* A return that hands out nothing after a failed listing request.
ReturnEmptyOnError ==
    /\ pc = "return"
    /\ file' = IF is_save THEN Some(books_list) ELSE file
    /\ result' = Some([value |-> IF outcome = "error" THEN <<>> ELSE books_list,
                       raised |-> FALSE])
    /\ pc' = "done"
    /\ UNCHANGED <<max_pages, is_save, books_list, page_num, book_articles, idx,
                   outcome, fetches, source_pages, source_books, prev,
                   extraction>>

\* After the loop: the optional save and the return, lines 158-163.
Return ==
    /\ pc = "return"
    /\ file' = IF is_save THEN Some(books_list) ELSE file
    /\ result' = Some([value |-> books_list, raised |-> FALSE])
    /\ pc' = "done"
    /\ UNCHANGED <<max_pages, is_save, books_list, page_num, book_articles, idx,
                   outcome, fetches, source_pages, source_books, prev,
                   extraction>>

\* scraping_job, lines 191-202: the job reports success unless scrape_books
\* raised.
JobReportsSuccess == ~result[1].raised

Next ==
    \/ \E args \in CallArgs : Call(args[1], args[2])
    \/ \E mp \in MaxPagesArgs : CallAgain(mp)
    \/ LoopHead
    \/ FetchCatalog
    \/ SkipArticle
    \/ ScrapeBook
    \/ Sleep
    \/ NextPage
    \/ Return

Spec == Init /\ [][Next]_vars

\* One thread runs the call to its end: every request returns and every step
\* of scrape_books is followed by the next one.
Step == LoopHead \/ FetchCatalog \/ SkipArticle \/ ScrapeBook \/ Sleep \/ NextPage \/ Return
FairSpec == Spec /\ WF_vars(Step)

\* ---------------------------------------------------------------- get_book_data on its own
RECURSIVE SeqsUpTo(_, _)
SeqsUpTo(S, n) ==
    IF n = 0 THEN {<<>>}
    ELSE LET shorter == SeqsUpTo(S, n - 1)
         IN  shorter \cup { Append(s, x) : s \in shorter, x \in S }

\* Class tokens a paragraph may carry.
ClassTokens == {"star-rating", "Three"}

\* soup.find("p", class_="star-rating"): the class lists of the paragraphs it
\* finds, which all hold the token star-rating.
RatingTags ==
    { Some(t) : t \in { c \in SeqsUpTo(ClassTokens, MaxTokens) :
                          \E i \in DOMAIN c : c[i] = "star-rating" } }

\* Rows of the characteristics table: th and td cells, either may be missing.
TableRows ==
    { [th |-> h, td |-> d] :
        h \in {None, Some(<<"U">>), Some(<<" ", "K">>)},
        d \in {None, Some(<<"a">>), Some(<<"b", " ">>)} }

\* The detail documents get_book_data is given.
Docs ==
    { [h1 |-> h, price |-> p, rating_tag |-> r, availability |-> a,
       description_tag |-> d[1], description_p |-> d[2], table |-> t] :
        h \in {None, Some(<<" ", "T">>)},
        p \in {None, Some(<<"5">>)},
        r \in {None} \cup RatingTags,
        a \in {None, Some(<<"I", "n", " ">>)},
        d \in {<<FALSE, None>>, <<TRUE, None>>, <<TRUE, Some(<<"d", " ">>)>>},
        t \in {None} \cup { Some(rows) : rows \in SeqsUpTo(TableRows, MaxRows) } }

\* The answers to the request of line 35.
DetailResponses ==
    { [status |-> 200, doc |-> d] : d \in Docs }
    \cup { [status |-> 404, doc |-> EmptyDoc], ConnError }

\* get_book_data(book_url) is called on its own, as the tests do.
ExtractInit ==
    /\ pc = "get_book_data"
    /\ max_pages = None
    /\ is_save = FALSE
    /\ books_list = <<>>
    /\ page_num = 1
    /\ book_articles = <<>>
    /\ idx = 0
    /\ outcome = "none"
    /\ fetches = <<>>
    /\ source_pages = [p \in 1..(MaxPage + 1) |-> Unknown]
    /\ source_books = [r \in Refs |-> Unknown]
    /\ result = None
    /\ prev = None
    /\ file = None
    /\ detail_response \in DetailResponses
    /\ detail_data = None

crawl == <<max_pages, is_save, books_list, page_num, book_articles, idx,
           outcome, fetches, source_pages, source_books, result, prev, file>>

\* The request and the status check, lines 35-36.
RequestBook ==
    /\ pc = "get_book_data"
    /\ IF IsRaised(get_book_data(detail_response))
       THEN detail_data' = Some(get_book_data(detail_response)) /\ pc' = "raised"
       ELSE detail_data' = detail_data /\ pc' = "parse"
    /\ UNCHANGED <<crawl, detail_response>>

\* The document is parsed and the dict returned, lines 38-81.
ParseDocument ==
    /\ pc = "parse"
    /\ detail_data' = Some(get_book_data(detail_response))
    /\ pc' = "returned"
    /\ UNCHANGED <<crawl, detail_response>>

ExtractNext == RequestBook \/ ParseDocument

ExtractSpec == ExtractInit /\ [][ExtractNext]_vars

TypeOK == pc \in {"idle", "loop", "fetch", "articles", "sleep", "return", "done"}

\* ---------------------------------------------------------------- vocabulary of the properties
IsPrefix(s, t) == Len(s) <= Len(t) /\ SubSeq(t, 1, Len(s)) = s

InCall == pc # "idle"
Finished == pc = "done"
Returned == result[1].value

\* The articles of listing page p as the source served them.
ArticlesOf(p) ==
    IF source_pages[p] = Unknown \/ source_pages[p] = ConnError THEN <<>>
    ELSE source_pages[p].articles

\* Listing page p was answered with a 2xx status.
PageOk(p) ==
    /\ source_pages[p] # Unknown
    /\ source_pages[p] # ConnError
    /\ source_pages[p].status \in 200..299

\* Listing page p was answered with a connection failure or an error status
\* other than 404.
PageTransportError(p) ==
    /\ source_pages[p] # Unknown
    /\ \/ source_pages[p] = ConnError
       \/ source_pages[p].status \in (400..599) \ {404}

\* The detail-page references of a listing, in listing order.
RECURSIVE RefsIn(_)
RefsIn(articles) ==
    IF articles = <<>> THEN <<>>
    ELSE IF Head(articles) \in { Art(r) : r \in Refs }
         THEN <<Head(articles).href[1]>> \o RefsIn(Tail(articles))
         ELSE RefsIn(Tail(articles))

\* The requests one fully processed listing page causes.
PageLog(p) ==
    <<CatalogUrl(p)>> \o [i \in 1..Len(RefsIn(ArticlesOf(p))) |-> BookUrl(RefsIn(ArticlesOf(p))[i])]

\* The requests of pages 1..k, page after page.
RECURSIVE FullLog(_)
FullLog(k) == IF k = 0 THEN <<>> ELSE FullLog(k - 1) \o PageLog(k)

\* The detail page of ref was served with a status that is no error status.
BookOk(ref) ==
    /\ source_books[ref] # Unknown
    /\ source_books[ref] # ConnError
    /\ source_books[ref].status \notin 400..599

\* The items a sequence of requests yields: one per detail page served
\* without error, in request order.
RECURSIVE ItemsOfLog(_)
ItemsOfLog(log) ==
    IF log = <<>> THEN <<>>
    ELSE IF Head(log).kind = "book" /\ BookOk(Head(log).ref)
         THEN <<ParseBook(source_books[Head(log).ref].doc)>> \o ItemsOfLog(Tail(log))
         ELSE ItemsOfLog(Tail(log))

\* The items of listing page p.
PageItems(p) == ItemsOfLog(PageLog(p))

\* The listing pages requested so far in this call, in request order.
CatalogPages == [i \in 1..Len(SelectSeq(fetches, LAMBDA u : u.kind = "catalog")) |->
                    SelectSeq(fetches, LAMBDA u : u.kind = "catalog")[i].page]

\* ---------------------------------------------------------------- properties
\* C1: a call with max_pages=0 requests no listing page and no detail page
\* and returns an empty result.
C1_ZeroPagesNoFetch ==
    (InCall /\ max_pages = Some(0)) =>
        /\ fetches = <<>>
        /\ Finished => Returned = <<>>

\* C2: with a positive max_pages = n no listing page numbered above n is
\* requested, the listing pages requested are 1..k in order with k <= n, and
\* once page n is processed the call ends by the bound check.
C2_BoundRespected ==
    (InCall /\ Truthy(max_pages)) =>
        /\ Len(CatalogPages) <= max_pages[1]
        /\ \A i \in DOMAIN CatalogPages : CatalogPages[i] = i
        /\ page_num <= max_pages[1] + 1
        /\ page_num > max_pages[1] =>
             /\ pc \in {"loop", "return", "done"}
             /\ pc \in {"return", "done"} => outcome = "limit"

\* A call with max_pages=1 went through all of page 1, with an item, and
\* ended at the bound check while the catalogue had more.
C2_Witness ==
    /\ Finished
    /\ max_pages = Some(1)
    /\ outcome = "limit"
    /\ Len(books_list) > 0
    /\ page_num = 2

\* The source has two non-empty listing pages followed by a 404 on page 3,
\* and a call without bound is under way.
TwoPagesThen404 ==
    /\ pc \notin {"idle", "done"}
    /\ max_pages = None
    /\ PageOk(1) /\ ArticlesOf(1) # <<>>
    /\ PageOk(2) /\ ArticlesOf(2) # <<>>
    /\ source_pages[3] # Unknown
    /\ source_pages[3] # ConnError
    /\ source_pages[3].status = 404

\* C3: against a source with exactly two non-empty listing pages followed by
\* a 404 on page 3, a call with max_pages=None terminates and returns the
\* items of page 1 followed by the items of page 2.
C3_TwoPagesThen404 ==
    TwoPagesThen404 ~>
        (Finished /\ max_pages = None /\ Returned = PageItems(1) \o PageItems(2))

\* Such a call has returned, with items of both pages.
C3_Witness ==
    /\ Finished
    /\ max_pages = None
    /\ outcome = "not_found"
    /\ page_num = 3
    /\ PageOk(1) /\ PageOk(2)
    /\ PageItems(1) # <<>> /\ PageItems(2) # <<>>
    /\ Returned = PageItems(1) \o PageItems(2)

C5_FatalIsSignalled ==
    Finished => (result[1].raised <=> outcome = "error")

\* The detail page of ref was requested and failed.
BookFailed(ref) == source_books[ref] # Unknown /\ ~BookOk(ref)

\* C6: a failed detail page ends neither the page nor the call: its item is
\* left out, the request that follows it is the one that would follow had it
\* succeeded, and the call does not end on it except by the bound check.
C6_ItemFailureIsLocal ==
    InCall =>
        \A i \in DOMAIN fetches :
            (fetches[i].kind = "book" /\ BookFailed(fetches[i].ref)) =>
                /\ books_list = ItemsOfLog(fetches)
                /\ i < Len(fetches) => fetches[i + 1] = FullLog(page_num)[i + 1]
                /\ i = Len(fetches) =>
                     \/ pc \in {"sleep", "articles", "loop", "fetch"}
                     \/ pc \in {"return", "done"} /\ outcome = "limit"

\* The first detail page of page 1 failed, the second one was requested and
\* gave an item, and the call went on to page 2.
C6_Witness ==
    /\ InCall
    /\ Len(fetches) >= 4
    /\ fetches[2].kind = "book" /\ BookFailed(fetches[2].ref)
    /\ fetches[3].kind = "book" /\ BookOk(fetches[3].ref)
    /\ fetches[4] = CatalogUrl(2)
    /\ Len(books_list) >= 1

\* C7: every item of the returned result has a title.
C7_TitlesNonNull ==
    Finished => \A i \in DOMAIN Returned : Returned[i].title # None

\* C8: the requests are those of the pages in order, each page's detail
\* pages in listing order and all of them before the next listing page, and
\* the result holds the items in that order.
C8_TraversalOrder ==
    InCall =>
        /\ IsPrefix(fetches, FullLog(page_num))
        /\ pc \in {"loop", "fetch"} => fetches = FullLog(page_num - 1)
        /\ books_list = ItemsOfLog(fetches)
        /\ Finished => Returned = books_list

\* Two pages were processed and the result holds different items.
C8_Witness ==
    /\ Finished
    /\ page_num = 3
    /\ Len(PageItems(1)) >= 2
    /\ Len(PageItems(2)) >= 1
    /\ Returned[1] # Returned[2]
    /\ Returned = PageItems(1) \o PageItems(2)

\* C9: when page 1 is non-empty, the result for max_pages=1 is a prefix of
\* the result for max_pages=2 against the same source, which is therefore at
\* least as long.
C9_Monotone ==
    (Finished /\ prev # None /\ max_pages = Some(2)
        /\ PageOk(1) /\ ArticlesOf(1) # <<>>) =>
        /\ Len(Returned) >= Len(prev[1])
        /\ IsPrefix(prev[1], Returned)

\* The second call returned more than the first, which returned something.
C9_Witness ==
    /\ Finished /\ prev # None /\ max_pages = Some(2)
    /\ PageOk(1)
    /\ Len(prev[1]) > 0
    /\ Len(Returned) > Len(prev[1])

\* C10: two calls with max_pages=1 against the same source return equal
\* results, and every call starts at page 1 with an empty accumulator.
C10_Idempotent ==
    /\ (Finished /\ prev # None /\ max_pages = Some(1)) => Returned = prev[1]
    /\ (pc = "loop" /\ fetches = <<>>) => (page_num = 1 /\ books_list = <<>>)

\* The second of two calls with max_pages=1 returned a non-empty result.
C10_Witness ==
    /\ Finished /\ prev # None /\ max_pages = Some(1)
    /\ Len(Returned) > 0

\* The number of detail requests made since the last listing request.
RECURSIVE TrailingBooks(_)
TrailingBooks(log) ==
    IF log = <<>> \/ log[Len(log)].kind = "catalog" THEN 0
    ELSE 1 + TrailingBooks(SubSeq(log, 1, Len(log) - 1))

\* The for loop over the articles of the current listing has ended.
PageProcessed == pc = "articles" /\ idx > Len(book_articles)

\* C11 as stated: the number of detail requests made for a listing page
\* equals the number of its article containers, whatever they lack.
C11_RefsEqualContainers ==
    PageProcessed => TrailingBooks(fetches) = Len(book_articles)

\* C11 as amended: the number of detail requests made for a listing page
\* equals the number of its article containers that have an h3 with an a
\* with a non-empty href; the other containers cause no request.
C11_RefsEqualLinkedContainers ==
    (pc = "articles" /\ idx >= 1) =>
        TrailingBooks(fetches) =
            Len(RefsIn(SubSeq(book_articles, 1,
                              IF idx > Len(book_articles) THEN Len(book_articles)
                              ELSE idx - 1)))

\* A page with three containers, one of them without a link, was processed
\* with two detail requests.
C11_Witness ==
    /\ PageProcessed
    /\ Len(book_articles) = 3
    /\ Len(RefsIn(book_articles)) = 2
    /\ TrailingBooks(fetches) = 2

\* get_book_data, called on its own, has returned its dict.
Extracted == pc = "returned"
Item == detail_data[1]
Doc == detail_response.doc

Ratings == {"One", "Two", "Three", "Four", "Five"}

\* C12: the rating of every detail document is None or one of One..Five: the
\* second class token of the star-rating paragraph when it has at least two
\* tokens, None when the paragraph is missing or has fewer than two.
C12_RatingEnumerated ==
    Extracted =>
        /\ Item.rating = None \/ Item.rating[1] \in Ratings
        /\ (Doc.rating_tag # None /\ Len(Doc.rating_tag[1]) >= 2)
              => Item.rating = Some(Doc.rating_tag[1][2])
        /\ (Doc.rating_tag = None \/ Len(Doc.rating_tag[1]) < 2)
              => Item.rating = None

ItemKeys == {"title", "price", "rating", "availability", "description", "product_info"}

\* C13: the dict of a document carries all six keys; a field whose element is
\* missing is None (product_info: empty), a field whose element is there is
\* extracted whatever else is missing.
C13_AllKeysPresent ==
    Extracted =>
        /\ DOMAIN Item = ItemKeys
        /\ Item.title = None <=> Doc.h1 = None
        /\ Item.price = None <=> Doc.price = None
        /\ Item.availability = None <=> Doc.availability = None
        /\ Doc.rating_tag = None => Item.rating = None
        /\ Item.description = None <=> (~Doc.description_tag \/ Doc.description_p = None)
        /\ Doc.table = None => DOMAIN Item.product_info = {}
        /\ Doc.table # None => DOMAIN Item.product_info \subseteq {<<"U">>, <<"K">>}

\* A document without heading, description and table gave a dict with its
\* price and availability.
C13_Witness ==
    /\ Extracted
    /\ Doc.h1 = None /\ Item.title = None
    /\ ~Doc.description_tag /\ Item.description = None
    /\ Doc.table = None
    /\ Item.price = Some(<<"5">>)
    /\ Item.availability = Some(<<"I", "n">>)

\* The rows of the table that have both a th and a td.
FullRows == { i \in DOMAIN Doc.table[1] :
                Doc.table[1][i].th # None /\ Doc.table[1][i].td # None }
RowKey(i) == Strip(Doc.table[1][i].th[1])
RowValue(i) == Strip(Doc.table[1][i].td[1])

\* C14: product_info has one pair per table row with both cells, rows
\* without a th or a td give nothing, and of two rows with the same key the
\* later one gives the value.
C14_ProductInfoRows ==
    (Extracted /\ Doc.table # None) =>
        /\ DOMAIN Item.product_info = { RowKey(i) : i \in FullRows }
        /\ \A i \in FullRows :
             (\A j \in FullRows : RowKey(j) = RowKey(i) => j <= i)
                => Item.product_info[RowKey(i)] = RowValue(i)

\* Two rows with the same key and different values: the second value stands.
C14_Witness ==
    /\ Extracted /\ Doc.table # None
    /\ FullRows = {1, 2}
    /\ RowKey(1) = RowKey(2)
    /\ RowValue(1) # RowValue(2)
    /\ Item.product_info[RowKey(1)] = RowValue(2)

\* Listing page p was parsed: its request gave a response whose status is
\* neither 404 nor an error status.
PageParsed(p) ==
    /\ source_pages[p] # Unknown
    /\ source_pages[p] # ConnError
    /\ source_pages[p].status < 400

Ended == pc \in {"return", "done"}

\* C15 as stated: a parsed listing page without refs, be it without
\* containers or with containers that yield no ref, ends the call: its
\* request is the last one and page p+1 is never reached.
C15_NoRefsEndsCrawl ==
    InCall =>
        \A i \in DOMAIN fetches :
            (fetches[i].kind = "catalog" /\ PageParsed(fetches[i].page)
                /\ RefsIn(ArticlesOf(fetches[i].page)) = <<>>) =>
                /\ i = Len(fetches)
                /\ page_num = fetches[i].page

\* C15 as amended: a parsed listing page without article containers ends the
\* call normally, its request being the last one; a page with containers
\* none of which yields a ref causes no detail request and the call goes on
\* with page p+1.
C15_NoContainersEndsCrawl ==
    InCall =>
        \A i \in DOMAIN fetches :
            (fetches[i].kind = "catalog" /\ PageParsed(fetches[i].page)
                /\ RefsIn(ArticlesOf(fetches[i].page)) = <<>>) =>
                /\ ArticlesOf(fetches[i].page) = <<>> =>
                     /\ i = Len(fetches)
                     /\ page_num = fetches[i].page
                     /\ Ended /\ outcome = "empty"
                /\ ArticlesOf(fetches[i].page) # <<>> =>
                     /\ i < Len(fetches) => fetches[i + 1] = CatalogUrl(fetches[i].page + 1)
                     /\ (i = Len(fetches) /\ Ended) =>
                          (outcome = "limit" /\ page_num = fetches[i].page + 1)

\* Page 1 had containers without any ref, page 2 was requested and had no
\* containers, which ended the call.
C15_Witness ==
    /\ Finished
    /\ outcome = "empty"
    /\ page_num = 2
    /\ fetches = <<CatalogUrl(1), CatalogUrl(2)>>
    /\ ArticlesOf(1) # <<>>
    /\ PageParsed(2) /\ ArticlesOf(2) = <<>>

\* C16: every detail request, failed or not, is followed by the delay: the
\* step that makes it leaves the call at the delay, and nothing is requested
\* there; the only step out of it is the delay itself.
C16_DelayAfterEachDetail ==
    [][ /\ (Len(fetches') = Len(fetches) + 1 /\ fetches'[Len(fetches')].kind = "book")
            => pc' = "sleep"
        /\ pc = "sleep" => (fetches' = fetches /\ pc' = "articles" /\ idx' = idx + 1)
      ]_vars

\* The delay was made after a detail request that failed.
C16_Witness ==
    /\ pc = "articles"
    /\ idx = 2
    /\ Len(fetches) = 2
    /\ fetches[2].kind = "book" /\ BookFailed(fetches[2].ref)

\* C17 as stated: a listing response is parsed only when its status is 2xx
\* and ends the catalogue only when it is 404; with any other status, and
\* with a connection failure, the call stops with the request error.
C17_OnlyOkParsed ==
    InCall =>
        \A i \in DOMAIN fetches :
            fetches[i].kind = "catalog" =>
                LET r == source_pages[fetches[i].page] IN
                IF r # ConnError /\ r.status = 404
                THEN i = Len(fetches) /\ Ended /\ outcome = "not_found"
                ELSE IF r = ConnError \/ r.status \notin 200..299
                THEN i = Len(fetches) /\ Ended /\ outcome = "error"
                ELSE ~(i = Len(fetches) /\ Ended /\ outcome \in {"not_found", "error"})

\* C17 as amended: a listing response ends the catalogue only when its
\* status is 404; a connection failure and every other 4xx or 5xx status
\* stop the call with the request error; a response with any status below
\* 400 (2xx, and 1xx and 3xx as well) is parsed as a listing.
C17_ErrorStatusesStop ==
    InCall =>
        \A i \in DOMAIN fetches :
            fetches[i].kind = "catalog" =>
                LET r == source_pages[fetches[i].page] IN
                IF r # ConnError /\ r.status = 404
                THEN i = Len(fetches) /\ Ended /\ outcome = "not_found"
                ELSE IF r = ConnError \/ r.status \in 400..599
                THEN i = Len(fetches) /\ Ended /\ outcome = "error"
                ELSE /\ ~(i = Len(fetches) /\ Ended /\ outcome \in {"not_found", "error"})
                     /\ (i = Len(fetches) /\ Ended /\ outcome = "empty") => r.articles = <<>>
                     /\ (i < Len(fetches) /\ RefsIn(r.articles) # <<>>)
                           => fetches[i + 1] = BookUrl(RefsIn(r.articles)[1])

\* A listing answered with status 301 was parsed and its first detail page
\* requested.
C17_Witness ==
    /\ InCall
    /\ Len(fetches) >= 2
    /\ fetches[1] = CatalogUrl(1)
    /\ source_pages[1] # ConnError /\ source_pages[1].status = 301
    /\ fetches[2].kind = "book"

\* The refs of the listing pages 1..k.
RECURSIVE RefCount(_)
RefCount(k) == IF k = 0 THEN 0 ELSE RefCount(k - 1) + Len(RefsIn(ArticlesOf(k)))

\* C18: the length of books_list is the number of detail requests that
\* succeeded so far; no listing page is requested twice, and at the head of
\* the loop every ref of the pages processed was requested exactly once.
C18_OneItemPerFetch ==
    InCall =>
        /\ Len(books_list) =
             Cardinality({ i \in DOMAIN fetches :
                             fetches[i].kind = "book" /\ BookOk(fetches[i].ref) })
        /\ \A i, j \in DOMAIN fetches :
             (i < j /\ fetches[i].kind = "catalog") => fetches[i] # fetches[j]
        /\ pc \in {"loop", "fetch"} =>
             Cardinality({ i \in DOMAIN fetches : fetches[i].kind = "book" })
                = RefCount(page_num - 1)

\* Of three detail requests one failed: two items.
C18_Witness ==
    /\ InCall
    /\ Cardinality({ i \in DOMAIN fetches : fetches[i].kind = "book" }) = 3
    /\ Cardinality({ i \in DOMAIN fetches :
                       fetches[i].kind = "book" /\ BookFailed(fetches[i].ref) }) = 1
    /\ Len(books_list) = 2

\* C19: a scheduled run that was stopped by a failed listing request leaves
\* books_data.txt as it was and is not reported as a success.
C19_PersistOnlyOnSuccess ==
    [][ (pc = "return" /\ is_save /\ outcome = "error")
            => (file' = file /\ ~JobReportsSuccess') ]_vars

\* C20: a call with a positive max_pages ends, whatever the source answers,
\* and it ends by the bound check, by a 404 or a listing without articles,
\* or by a failed listing request; never on a detail request, failed or not.
C20_Terminates ==
    /\ (InCall /\ Truthy(max_pages)) ~> Finished
    /\ [](( Finished /\ Truthy(max_pages)) =>
            \/ outcome = "limit" /\ page_num = max_pages[1] + 1
            \/ /\ fetches # <<>>
               /\ fetches[Len(fetches)] = CatalogUrl(page_num)
               /\ \/ outcome = "error" /\ PageTransportError(page_num)
                  \/ /\ outcome = "not_found"
                     /\ source_pages[page_num] # ConnError
                     /\ source_pages[page_num].status = 404
                  \/ outcome = "empty" /\ PageParsed(page_num)
                       /\ ArticlesOf(page_num) = <<>>)

\* A call with max_pages=2 met a failed detail request on page 1, went on to
\* page 2 and ended at the bound check.
C20_Witness ==
    /\ Finished
    /\ max_pages = Some(2)
    /\ outcome = "limit"
    /\ page_num = 3
    /\ \E i \in DOMAIN fetches :
         /\ fetches[i].kind = "book" /\ BookFailed(fetches[i].ref)
         /\ \E j \in DOMAIN fetches : j > i /\ fetches[j] = CatalogUrl(2)

====
